---- MODULE Spec2Model ----
(***************************************************************************)
(* The forecast cache and point-query routines of pyndfd (ndfd.py).        *)
(*                                                                         *)
(* Time is counted in minutes since 00:00 UTC of day 0.  The local file    *)
(* system is the pair of the sets of directories and of files that exist;  *)
(* a path is the sequence of its components and every component is a       *)
(* tagged tuple.                                                           *)
(*                                                                         *)
(* The code observes the wall clock only through its hour and through the  *)
(* test minute <= CACHE_SERVER_BUFFER_MIN, so the clock of the state       *)
(* machine advances from one instant at which one of the two changes (a    *)
(* boundary: minute 0 or minute 16 of an hour) to the next.  A call reads   *)
(* the clock several times; it draws the value of every read, the clock    *)
(* crossing at most one boundary while the call runs.                      *)
(***************************************************************************)
EXTENDS Integers, Sequences, FiniteSets, TLC

VARIABLES
    clock,              \* datetime.utcnow(), in minutes
    fs,                 \* the local file system: [dirs, files]
    NDFD_LOCAL_SERVER,  \* the module global set by setLocalCacheServerNDFD
    query,              \* the getLocationData call in progress and its locals
    last,               \* what the last call did and returned
    hist,               \* what earlier calls returned (history variable)
    callers             \* the getVariable calls of the concurrent callers

vars == <<clock, fs, NDFD_LOCAL_SERVER, query, last, hist, callers>>

\* ------------------------------------------------------------------ bounds

StartClock == 1438      \* the wall clock of the first state: 23:58 of day 0
Horizon == 20           \* the wall clock runs up to StartClock + Horizon
PureDays == 2           \* days of wall-clock times the clock function is tried on
MaxCoord == 8           \* query points have coordinates in 0..MaxCoord
NumSteps == 3           \* forecast steps of a decoded forecast file

MaxClock == StartClock + Horizon

\* --------------------------------------------------------------- constants

None == "None"

CACHE_SERVER_BUFFER_MIN == 15

RTMA_LOCAL_SERVER == None
NDFD_REMOTE_SERVER == "tgftp.nws.noaa.gov"
RTMA_REMOTE_SERVER == NDFD_REMOTE_SERVER

NDFD_TMP == << <<"tmp", "pyndfd">> >>
RTMA_TMP == << <<"tmp", "pyrtma">> >>

\* 'DC.ndfd/AR.{0}/VP.{1}/'
NDFD_DIR(area, vp) == << <<"DC", "ndfd">>, <<"AR", area>>, <<"VP", vp>> >>
\* 'DC.ndgd/GT.rtma/AR.{0}/RT.{1}/'
RTMA_DIR(area, rt) == << <<"DC", "ndgd">>, <<"GT", "rtma">>, <<"AR", area>>, <<"RT", rt>> >>
\* 'static/DC.ndfd/AR.{0}/'
NDFD_STATIC(area) == << <<"static">>, <<"DC", "ndfd">>, <<"AR", area>> >>
\* 'ds.{0}.bin'
NDFD_VAR(var) == << <<"ds", var>> >>

\* ----------------------------------------------------------------- catalog

\* DEFS['grids']: the tiles in the catalog's iteration order, with centroids.
GridOrder == <<"conus", "puertori", "neast", "nhemi", "pacnwest", "npacocn">>

GridDefs ==
    [conus    |-> [latC |-> 2, lonC |-> 2],
     puertori |-> [latC |-> 0, lonC |-> 4],
     neast    |-> [latC |-> 3, lonC |-> 4],
     nhemi    |-> [latC |-> 4, lonC |-> 2],
     pacnwest |-> [latC |-> 3, lonC |-> 0],
     npacocn  |-> [latC |-> 4, lonC |-> 0]]

\* DEFS['vars']: per tile, the validity periods in iteration order, each with
\* the variables published under it.
VarDefs ==
    [conus    |-> << <<"001-003", {"temp", "wspd"}>>, <<"004-007", {"temp"}>> >>,
     puertori |-> << <<"001-003", {"wspd"}>> >>,
     neast    |-> << <<"001-003", {"temp", "wspd"}>>, <<"004-007", {"temp"}>> >>,
     nhemi    |-> << <<"001-003", {"wspd"}>> >>,
     pacnwest |-> << <<"001-003", {"temp", "wspd"}>>, <<"004-007", {"temp"}>> >>,
     npacocn  |-> << <<"001-003", {"wspd"}>> >>]

\* DEFS = ndfdDefs()
ndfdDefs == [grids |-> GridDefs, vars |-> VarDefs]

\* ------------------------------------------------------------------- clock

minute(t) == t % 60
hour(t) == (t \div 60) % 24
day(t) == t \div 1440

\* datetime.replace(minute=0, second=0, microsecond=0)
replace0(t) == t - (t % 60)

\* strftime('%Y-%m-%d-%H:%M')
strftime(t) == <<"T", day(t), hour(t), minute(t)>>

\* A mutant of getLatestForecastTime: the buffer test is strict.
getLatestForecastTimeStrict(t1, t2) ==
    LET latestTime == IF minute(t1) < CACHE_SERVER_BUFFER_MIN THEN t2 - 60 ELSE t1
    IN  replace0(latestTime)

\* t1 and t2 are the two reads of utcnow().
getLatestForecastTime(t1, t2) ==
    LET latestTime == IF minute(t1) <= CACHE_SERVER_BUFFER_MIN THEN t2 - 60 ELSE t1
    IN  replace0(latestTime)

\* The next instant after t at which the hour or the buffer test changes.
NextBoundary(t) ==
    IF minute(t) <= CACHE_SERVER_BUFFER_MIN
    THEN replace0(t) + CACHE_SERVER_BUFFER_MIN + 1
    ELSE replace0(t) + 60

\* The values of n successive reads of the clock made by a call that starts
\* now: the clock crosses the next boundary before read j, or not at all
\* (j = n + 1).
Reads(n) ==
    { [i \in 1..n |-> IF i >= j THEN NextBoundary(clock) ELSE clock] : j \in 2..(n + 1) }

\* ------------------------------------------------------------- file system

EmptyFS == [dirs |-> {}, files |-> {}]

IsPrefix(r, p) == Len(r) <= Len(p) /\ SubSeq(p, 1, Len(r)) = r

isdir(f, p) == p \in f.dirs
isfile(f, p) == p \in f.files

makedirs(f, p) == [f EXCEPT !.dirs = @ \cup {SubSeq(p, 1, n) : n \in 1..Len(p)}]

rmtree(f, r) ==
    [dirs  |-> {p \in f.dirs : ~IsPrefix(r, p)},
     files |-> {p \in f.files : ~IsPrefix(r, p)}]

\* urlretrieve(remoteVar, localVar): "ok" writes the file, "error" raises,
\* "nofile" returns and leaves no file at localVar.
FetchOutcomes == {"ok", "error", "nofile"}

\* The network during one call: every fetch is "ok", or the fetch of
\* iteration failAt (0: none) ends as how says.
Networks(n) ==
    {[failAt |-> 0, how |-> "ok"]} \cup
    {[failAt |-> i, how |-> h] : i \in 1..n, h \in FetchOutcomes \ {"ok"}}

Outcome(net, i) == IF net.failAt = i THEN net.how ELSE "ok"

urlretrieve(f, localVar, outcome) ==
    IF outcome = "ok" THEN [f EXCEPT !.files = @ \cup {localVar}] ELSE f

\* ------------------------------------------------------------- getVariable

Sources == {"NDFD", "RTMA"}

TMP_DIR(source) == IF source = "NDFD" THEN NDFD_TMP ELSE RTMA_TMP
REMOTE_SERVER(source) == IF source = "NDFD" THEN NDFD_REMOTE_SERVER ELSE RTMA_REMOTE_SERVER
\* A mutant of LOCAL_SERVER: no override server for either source.
LOCAL_SERVER_Unset(source, ndfdLocal) == RTMA_LOCAL_SERVER

LOCAL_SERVER(source, ndfdLocal) == IF source = "NDFD" THEN ndfdLocal ELSE RTMA_LOCAL_SERVER

\* The number of validity periods the loop of getVariable goes through.
NumVPs(area) == IF area \in DOMAIN ndfdDefs.vars THEN Len(ndfdDefs.vars[area]) ELSE 0

\* A mutant of Rollover: the previous cache root is kept.
RolloverKeep(f, tmpDir, dirTime) ==
    IF ~isdir(f, dirTime) THEN makedirs(f, dirTime) ELSE f

\* Lines 137-140: a missing cycle directory discards the whole cache root.
Rollover(f, tmpDir, dirTime) ==
    IF ~isdir(f, dirTime) THEN makedirs(rmtree(f, tmpDir), dirTime) ELSE f

\* Lines 144-147: varDir; now is the read of utcnow() of this iteration.
VarDir(source, area, vp, now, cycle) ==
    IF source = "NDFD" THEN NDFD_DIR(area, vp) ELSE RTMA_DIR(area, hour(now) - 1)

\* Lines 151-152, 194-195: the directory is made when it is missing.
EnsureDir(f, dir) == IF ~isdir(f, dir) THEN makedirs(f, dir) ELSE f

\* Lines 153-161, 196-199: a file missing at localVar is fetched, once, from
\* server; the result is [fs, fetches, status].
Retrieve(f, server, remote, localVar, outcome) ==
    IF isfile(f, localVar) THEN [fs |-> f, fetches |-> <<>>, status |-> "ok"]
    ELSE [fs |-> urlretrieve(f, localVar, outcome),
          fetches |-> <<[server |-> server, remote |-> remote, localVar |-> localVar]>>,
          status |-> CASE outcome = "ok" -> "ok"
                       [] outcome = "error" -> "URLError"
                       [] OTHER -> "RuntimeError"]

\* Lines 142-162: the loop over the validity periods of the tile, from the
\* i-th on.  c holds what the loop reads; st is [fs, gribs, fetches, status].
RECURSIVE VarLoop(_, _, _)

\* Lines 160-162: after the fetch got of localVar in iteration i.
AfterFetch(i, c, st, localVar, got) ==
    IF got.status # "ok"
    THEN [st EXCEPT !.fs = got.fs, !.fetches = @ \o got.fetches, !.status = got.status]
    ELSE VarLoop(i + 1, c,
            [st EXCEPT !.fs = got.fs, !.fetches = @ \o got.fetches,
                       !.gribs = Append(@, localVar)])

\* Lines 148-159: iteration i, for a validity period that publishes the variable.
FetchVar(i, c, st, varDir) ==
    AfterFetch(i, c, st, c.dirTime \o varDir \o NDFD_VAR(c.var),
        Retrieve(EnsureDir(st.fs, c.dirTime \o varDir),
                 IF c.local # None THEN c.local ELSE REMOTE_SERVER(c.source),
                 varDir \o NDFD_VAR(c.var),
                 c.dirTime \o varDir \o NDFD_VAR(c.var),
                 Outcome(c.net, i)))

VarLoop(i, c, st) ==
    IF i > Len(ndfdDefs.vars[c.area]) THEN st
    ELSE IF c.var \notin ndfdDefs.vars[c.area][i][2] THEN VarLoop(i + 1, c, st)
    ELSE FetchVar(i, c, st,
            VarDir(c.source, c.area, ndfdDefs.vars[c.area][i][1], c.r[2 + i], c.cycle))

\* Lines 136-141, 163-166, given the cycle of line 136.
getVariableIn(cycle, dirTime, var, area, source, r, net, ndfdLocal, f) ==
    IF area \in DOMAIN ndfdDefs.vars
    THEN VarLoop(1,
            [var |-> var, area |-> area, source |-> source, r |-> r, net |-> net,
             local |-> LOCAL_SERVER(source, ndfdLocal), dirTime |-> dirTime,
             cycle |-> cycle],
            [fs |-> Rollover(f, TMP_DIR(source), dirTime), gribs |-> <<>>,
             fetches |-> <<>>, status |-> "ok", cycle |-> cycle])
    ELSE [fs |-> Rollover(f, TMP_DIR(source), dirTime), gribs |-> <<>>,
          fetches |-> <<>>, status |-> "ValueError", cycle |-> cycle]

\* getVariable(var, area, source) on the file system f: r are the reads of the
\* clock (r[1], r[2] by getLatestForecastTime, r[2 + i] by iteration i), net
\* gives the outcome of the fetch of iteration i, ndfdLocal is NDFD_LOCAL_SERVER.
\* The result is [fs, gribs, fetches, status, cycle].
getVariable(var, area, source, r, net, ndfdLocal, f) ==
    getVariableIn(getLatestForecastTime(r[1], r[2]),
                  TMP_DIR(source) \o <<strftime(getLatestForecastTime(r[1], r[2]))>>,
                  var, area, source, r, net, ndfdLocal, f)

\* ---------------------------------------------------- getElevationVariable

\* Lines 191-200, for a tile with elevation data and with the server set.
getElevationFile(area, outcome, ndfdLocal, f) ==
    Retrieve(EnsureDir(EnsureDir(f, NDFD_TMP), NDFD_TMP \o NDFD_STATIC(area)),
             ndfdLocal,
             NDFD_STATIC(area) \o NDFD_VAR("elev"),
             NDFD_TMP \o NDFD_STATIC(area) \o NDFD_VAR("elev"),
             outcome)

\* getElevationVariable(area) on the file system f; the result is
\* [fs, path, fetches, status].
getElevationVariable(area, outcome, ndfdLocal, f) ==
    IF area = "puertori"
    THEN [fs |-> f, path |-> <<>>, fetches |-> <<>>, status |-> "ValueError"]
    ELSE IF ndfdLocal = None
    THEN [fs |-> f, path |-> <<>>, fetches |-> <<>>, status |-> "RuntimeError"]
    ELSE [fs |-> getElevationFile(area, outcome, ndfdLocal, f).fs,
          fetches |-> getElevationFile(area, outcome, ndfdLocal, f).fetches,
          status |-> getElevationFile(area, outcome, ndfdLocal, f).status,
          path |-> IF getElevationFile(area, outcome, ndfdLocal, f).status = "ok"
                   THEN NDFD_TMP \o NDFD_STATIC(area) \o NDFD_VAR("elev") ELSE <<>>]

\* --------------------------------------------------------- getSmallestGrid

\* G.inv(lon1, lat1, lon2, lat2)[-1], the geodesic distance, on a lattice of
\* coordinates: the squared planar distance stands for it.
Dist(lon1, lat1, lon2, lat2) ==
    (lon1 - lon2) * (lon1 - lon2) + (lat1 - lat2) * (lat1 - lat2)

Excluded(area) == area = "conus" \/ area = "nhemi" \/ area = "npacocn"

\* A mutant of GridLoop: the coarse tiles are candidates too.
RECURSIVE GridLoopAll(_, _, _, _, _)
GridLoopAll(i, lat, lon, smallest, minDist) ==
    IF i > Len(GridOrder) THEN smallest
    ELSE IF Dist(lon, lat, ndfdDefs.grids[GridOrder[i]].lonC,
                 ndfdDefs.grids[GridOrder[i]].latC) < minDist
    THEN GridLoopAll(i + 1, lat, lon, GridOrder[i],
            Dist(lon, lat, ndfdDefs.grids[GridOrder[i]].lonC,
                 ndfdDefs.grids[GridOrder[i]].latC))
    ELSE GridLoopAll(i + 1, lat, lon, smallest, minDist)

\* Lines 215-223: the loop over DEFS['grids'].keys(), from the i-th tile on.
RECURSIVE GridLoop(_, _, _, _, _)
GridLoop(i, lat, lon, smallest, minDist) ==
    IF i > Len(GridOrder) THEN smallest
    ELSE IF Excluded(GridOrder[i]) THEN GridLoop(i + 1, lat, lon, smallest, minDist)
    ELSE IF Dist(lon, lat, ndfdDefs.grids[GridOrder[i]].lonC,
                 ndfdDefs.grids[GridOrder[i]].latC) < minDist
    THEN GridLoop(i + 1, lat, lon, GridOrder[i],
            Dist(lon, lat, ndfdDefs.grids[GridOrder[i]].lonC,
                 ndfdDefs.grids[GridOrder[i]].latC))
    ELSE GridLoop(i + 1, lat, lon, smallest, minDist)

getSmallestGrid(lat, lon) ==
    GridLoop(1, lat, lon, "neast",
        Dist(lon, lat, ndfdDefs.grids["neast"].lonC, ndfdDefs.grids["neast"].latC))

\* The iteration orders DEFS['grids'].keys() may have: the tiles that are
\* candidates in any order, the coarse tiles at their places.
Orders ==
    {o \in [1..Len(GridOrder) -> DOMAIN ndfdDefs.grids] :
        /\ \A i, j \in 1..Len(GridOrder) : o[i] = o[j] => i = j
        /\ \A i \in 1..Len(GridOrder) : Excluded(GridOrder[i]) => o[i] = GridOrder[i]}

\* Lines 215-223 for the iteration order order.
RECURSIVE GridLoopIn(_, _, _, _, _, _)
GridLoopIn(order, i, lat, lon, smallest, minDist) ==
    IF i > Len(order) THEN smallest
    ELSE IF Excluded(order[i]) THEN GridLoopIn(order, i + 1, lat, lon, smallest, minDist)
    ELSE IF Dist(lon, lat, ndfdDefs.grids[order[i]].lonC,
                 ndfdDefs.grids[order[i]].latC) < minDist
    THEN GridLoopIn(order, i + 1, lat, lon, order[i],
            Dist(lon, lat, ndfdDefs.grids[order[i]].lonC,
                 ndfdDefs.grids[order[i]].latC))
    ELSE GridLoopIn(order, i + 1, lat, lon, smallest, minDist)

\* Lines 212-225 for the iteration order order.
getSmallestGridIn(order, lat, lon) ==
    GridLoopIn(order, 1, lat, lon, "neast",
        Dist(lon, lat, ndfdDefs.grids["neast"].lonC, ndfdDefs.grids["neast"].latC))

\* ---------------------------------------------------- getNearestXrGridPoint

\* ds.variables['latitude'] and ['longitude'] of a decoded file, as [y][x].
GridLat == << <<0, 0>>, <<10, 10>> >>
GridLon == << <<0, 10>>, <<0, 10>> >>

\* The cells <<y, x>> in the order numpy.where lists them (row-major).
Cells ==
    [k \in 1..(Len(GridLat) * Len(GridLat[1])) |->
        <<((k - 1) \div Len(GridLat[1])) + 1, ((k - 1) % Len(GridLat[1])) + 1>>]

\* Line 241: dist at the cell c.
CellDist(c, lat, lon) ==
    (GridLat[c[1]][c[2]] - lat) * (GridLat[c[1]][c[2]] - lat)
        + (GridLon[c[1]][c[2]] - lon) * (GridLon[c[1]][c[2]] - lon)

\* A mutant of MinCells: only the first cell of minimum distance (argmin).
MinCellsFirst(lat, lon) ==
    SubSeq(SelectSeq(Cells, LAMBDA c :
        \A k \in 1..Len(Cells) : CellDist(c, lat, lon) <= CellDist(Cells[k], lat, lon)),
        1, 1)

\* Line 242: the cells where dist == dist.min().
MinCells(lat, lon) ==
    SelectSeq(Cells, LAMBDA c :
        \A k \in 1..Len(Cells) : CellDist(c, lat, lon) <= CellDist(Cells[k], lat, lon))

IndexResult(cells) ==
    [idx |-> [k \in 1..Len(cells) |-> cells[k][2]],
     idy |-> [k \in 1..Len(cells) |-> cells[k][1]],
     gLat |-> [k \in 1..Len(cells) |-> GridLat[cells[k][1]][cells[k][2]]],
     gLon |-> [k \in 1..Len(cells) |-> GridLon[cells[k][1]][cells[k][2]]]]

getNearestXrGridPoint(lat, lon) == IndexResult(MinCells(lat, lon))

\* ---------------------------------------------------------- getLocationData

\* An optional time: <<>> is None, <<t>> is the time t.
NoTime == <<>>

\* A mutant of validateArguments: the variable is not checked against the tile.
validateArgumentsAnyVar(var, area, timeStep, minTime, maxTime, r) ==
    IF timeStep < 1 THEN "ValueError"
    ELSE IF minTime # NoTime /\ minTime[1] < getLatestForecastTime(r[1], r[2])
    THEN "ValueError"
    ELSE IF maxTime # NoTime /\ maxTime[1] < getLatestForecastTime(r[3], r[4])
    THEN "ValueError"
    ELSE IF area \notin DOMAIN ndfdDefs.vars THEN "KeyError"
    ELSE "ok"

\* validateArguments: "ok" or the exception raised; r are the reads of the
\* clock by its two calls of getLatestForecastTime.  DEFS['vars'][area] raises
\* KeyError for a tile that is not in the catalog; IndexError is what is caught.
validateArguments(var, area, timeStep, minTime, maxTime, r) ==
    IF timeStep < 1 THEN "ValueError"
    ELSE IF minTime # NoTime /\ minTime[1] < getLatestForecastTime(r[1], r[2])
    THEN "ValueError"
    ELSE IF maxTime # NoTime /\ maxTime[1] < getLatestForecastTime(r[3], r[4])
    THEN "ValueError"
    ELSE IF area \notin DOMAIN ndfdDefs.vars THEN "KeyError"
    ELSE IF ~\E i \in 1..Len(ndfdDefs.vars[area]) : var \in ndfdDefs.vars[area][i][2]
    THEN "ValueError"
    ELSE "ok"

\* Lines 264-267: the results of getLatestForecastTime that minTime and
\* maxTime are compared with (the second only when the first check passes).
ValidationCycles(minTime, maxTime, r) ==
    (IF minTime # NoTime THEN <<getLatestForecastTime(r[1], r[2])>> ELSE <<>>)
    \o (IF maxTime # NoTime /\ ~(minTime # NoTime
                                  /\ minTime[1] < getLatestForecastTime(r[1], r[2]))
        THEN <<getLatestForecastTime(r[3], r[4])>> ELSE <<>>)

\* Lines 301-310: the hours 0, timeStep, 2 timeStep, ... < 250 after midnight
\* of the cycle's day that lie in the window.
validTimes(forecastTime, timeStep, minTime, maxTime) ==
    SelectSeq(
        [k \in 1..((249 \div timeStep) + 1) |->
            forecastTime - 60 * hour(forecastTime) + 60 * (k - 1) * timeStep],
        LAMBDA t : /\ (minTime = NoTime \/ t >= minTime[1])
                   /\ (maxTime = NoTime \/ t <= maxTime[1]))

\* The decoded files (xr.open_dataset).  A file holds the data of the cycle
\* of its directory: an analysis file one valid time, a forecast file NumSteps
\* hourly steps; shape lists its data variables.
PathTime(g) == g[2][2] * 1440 + g[2][3] * 60 + g[2][4]
RtmaTime(g) == PathTime(g)
NdfdTimes(g) == [i \in 1..NumSteps |-> PathTime(g) + 60 * i]

VarBase(v) == IF v = "t2m" THEN 0 ELSE 100
CellBase(y, x) == 10 * (Len(GridLat[1]) * (y - 1) + (x - 1))
RtmaValue(v, y, x) == 3 + VarBase(v) + CellBase(y, x)
NdfdValue(v, i, y, x) == 5 + 2 * (i - 1) + VarBase(v) + CellBase(y, x)

Range(seq) == {seq[k] : k \in 1..Len(seq)}

\* {**a, **b}
Merge(a, b) ==
    [k \in DOMAIN a \cup DOMAIN b |-> IF k \in DOMAIN b THEN b[k] ELSE a[k]]

\* Lines 316-328: the loop over the analysis files, from the k-th on; p is
\* the result of getNearestXrGridPoint.  acc is [variables, variable]:
\* analysis['variables'] and the binding of the name variable (<<>>: unbound).
RECURSIVE RtmaLoop(_, _, _, _, _)
RtmaLoop(k, varRTMA, shape, p, acc) ==
    IF k > Len(varRTMA) THEN acc
    ELSE RtmaLoop(k + 1, varRTMA, shape, p,
            [variables |-> Merge(acc.variables,
                [v \in Range(shape) |->
                    (RtmaTime(varRTMA[k]) :> RtmaValue(v, p.idy[1], p.idx[1]))]),
             variable |-> IF shape = <<>> THEN acc.variable
                          ELSE <<shape[Len(shape)]>>])

\* Lines 339-344: varData as the last iteration over data_vars leaves it; the
\* values are read from tmp.variables[variable].
VarData(g, variable, p) ==
    [t \in Range(NdfdTimes(g)) |->
        NdfdValue(variable,
                  CHOOSE i \in 1..NumSteps : NdfdTimes(g)[i] = t,
                  p.idy[1], p.idx[1])]

\* Lines 331-346: the loop over the forecast files, from the k-th on; acc is
\* [variables, variable, status].
RECURSIVE NdfdLoop(_, _, _, _, _)
NdfdLoop(k, varNDFD, shape, p, acc) ==
    IF k > Len(varNDFD) \/ acc.status # "ok" THEN acc
    ELSE IF acc.variable = <<>> \/ shape = <<>>
    THEN [acc EXCEPT !.status = "NameError"]
    ELSE IF acc.variable[1] \notin Range(shape)
    THEN [acc EXCEPT !.status = "KeyError"]
    ELSE NdfdLoop(k + 1, varNDFD, shape, p,
            [acc EXCEPT !.variables[acc.variable[1]] =
                Merge(@, VarData(varNDFD[k], acc.variable[1], p))])

\* Lines 316-348: [variables, variable, status] after both loops.
Extract(varRTMA, varNDFD, rshape, nshape, lat, lon) ==
    NdfdLoop(1, varNDFD, nshape, getNearestXrGridPoint(lat, lon),
        [variables |-> RtmaLoop(1, varRTMA, rshape, getNearestXrGridPoint(lat, lon),
                          [variables |-> <<>>, variable |-> <<>>]).variables,
         variable  |-> RtmaLoop(1, varRTMA, rshape, getNearestXrGridPoint(lat, lon),
                          [variables |-> <<>>, variable |-> <<>>]).variable,
         status    |-> "ok"])

\* ------------------------------------------------------------------ inputs

CallVars == {"temp", "snow"}
CallAreas == {"neast", "atlantis"}
ElevAreas == {"neast", "puertori"}
Uris == {"cache.local", None}

\* The times given as minTime and maxTime: before the first cycle, after the
\* last one, and later still.
PastTime == replace0(StartClock) - 120
SoonTime == replace0(StartClock) + 120
LaterTime == replace0(StartClock) + 240

\* The arguments of the getLocationData calls: a plain query at the centroid
\* of tile neast, and the queries that differ from it in one respect.
PlainQuery ==
    [var |-> "wspd", lat |-> 3, lon |-> 4, timeStep |-> 1, elev |-> FALSE,
     minTime |-> NoTime, maxTime |-> NoTime, area |-> None]

Queries ==
    {PlainQuery,
     [PlainQuery EXCEPT !.var = "snow"],
     [PlainQuery EXCEPT !.var = "temp", !.area = "puertori"],
     [PlainQuery EXCEPT !.area = "atlantis"],
     [PlainQuery EXCEPT !.timeStep = 0],
     [PlainQuery EXCEPT !.timeStep = 2],
     [PlainQuery EXCEPT !.elev = TRUE],
     [PlainQuery EXCEPT !.minTime = <<PastTime>>],
     [PlainQuery EXCEPT !.maxTime = <<PastTime>>],
     [PlainQuery EXCEPT !.minTime = <<SoonTime>>, !.maxTime = <<LaterTime>>]}

\* The data variables of the decoded analysis and forecast files.
RtmaShapes == {<<"t2m">>, <<>>}
NdfdShapes == {<<"t2m">>, <<"t2m", "d2m">>}

\* ----------------------------------------------------------------- history

Keys == CallVars \X CallAreas \X Sources

NoEntry == [valid |-> FALSE, cycle |-> 0, gribs |-> <<>>]
NoCall == [called |-> FALSE, cycle |-> 0]

\* gv[k]: the cycle and the result of the last successful getVariable(k);
\* seen[source]: the cycle of the last getVariable call for the source;
\* elev: the tiles whose elevation file a call has returned.
\* failed: the last getLocationData call, when it ended in an error of the
\* forecast fetch after its analysis files had been resolved: its arguments,
\* the cycle of the analysis files and their paths.
NoFailure == [valid |-> FALSE, q |-> PlainQuery, cycle |-> 0, gribs |-> <<>>]

NoHistory ==
    [gv |-> [k \in Keys |-> NoEntry],
     seen |-> [s \in Sources |-> NoCall],
     elev |-> {},
     failed |-> NoFailure]

\* An entry of a cycle that no later call can resolve is dropped.
Expire(h, now) ==
    [h EXCEPT !.gv = [k \in Keys |->
        IF h.gv[k].valid /\ h.gv[k].cycle < getLatestForecastTime(now, now)
        THEN NoEntry ELSE h.gv[k]],
              !.failed =
        IF h.failed.valid /\ h.failed.cycle < getLatestForecastTime(now, now)
        THEN NoFailure ELSE h.failed]

RecordGetVariable(h, var, area, source, res) ==
    [h EXCEPT !.seen[source] = [called |-> TRUE, cycle |-> res.cycle],
              !.gv = [k \in Keys |->
                  IF k = <<var, area, source>> /\ res.status = "ok"
                  THEN [valid |-> TRUE, cycle |-> res.cycle, gribs |-> res.gribs]
                  ELSE @[k]]]

\* -------------------------------------------------------- concurrent callers

\* Two callers run getVariable for the same variable, tile and source.
Callers == {1, 2}
SharedKey == [var |-> "wspd", area |-> "neast", source |-> "NDFD"]

\* The locals of a caller: where it is in getVariable (pc), the cycle of line
\* 136, the index i of the validity period of the loop, gribs, and what the
\* call has done: the paths it has fetched, the path it is writing (<<>>:
\* none), whether it has taken a file that another caller was writing for a
\* cached one, and the exception that ended it.
IdleCaller ==
    [pc |-> "idle", cycle |-> 0, i |-> 0, gribs |-> <<>>, fetched |-> {},
     writing |-> <<>>, sawPartial |-> FALSE, status |-> "ok"]

NoCallers == [c \in Callers |-> IdleCaller]

\* The first validity period from the i-th on that publishes the variable.
RECURSIVE NextVP(_)
NextVP(i) ==
    IF i > Len(ndfdDefs.vars[SharedKey.area]) THEN i
    ELSE IF SharedKey.var \in ndfdDefs.vars[SharedKey.area][i][2] THEN i
    ELSE NextVP(i + 1)

\* dirTime, localDir and localVar of a caller.
DirTimeOf(cl) == TMP_DIR(SharedKey.source) \o <<strftime(cl.cycle)>>
LocalDirOf(cl) ==
    DirTimeOf(cl) \o VarDir(SharedKey.source, SharedKey.area,
                            ndfdDefs.vars[SharedKey.area][cl.i][1], clock, cl.cycle)
LocalVarOf(cl) == LocalDirOf(cl) \o NDFD_VAR(SharedKey.var)

\* ------------------------------------------------------------------- state

Idle == [pc |-> "idle"]

Init ==
    /\ clock = StartClock
    /\ fs = EmptyFS
    /\ NDFD_LOCAL_SERVER = None
    /\ query = Idle
    /\ last = [op |-> "import"]
    /\ hist = NoHistory
    /\ callers = NoCallers

\* The wall clock advances to the next boundary.
Tick ==
    /\ NextBoundary(clock) <= MaxClock
    /\ clock' = NextBoundary(clock)
    /\ hist' = Expire(hist, NextBoundary(clock))
    /\ UNCHANGED <<fs, NDFD_LOCAL_SERVER, query, last, callers>>

setLocalCacheServerNDFD(uri) ==
    /\ query.pc = "idle"
    /\ NDFD_LOCAL_SERVER' = uri
    /\ last' = [op |-> "setLocalCacheServerNDFD", uri |-> uri]
    /\ UNCHANGED <<clock, fs, query, hist, callers>>

CallGetVariable(var, area, source) ==
    \E r \in Reads(2 + NumVPs(area)), net \in Networks(NumVPs(area)) :
    \E res \in {getVariable(var, area, source, r, net, NDFD_LOCAL_SERVER, fs)},
       end \in {r[2 + NumVPs(area)]} :
            /\ query.pc = "idle"
            /\ end <= MaxClock
            /\ clock' = end
            /\ fs' = res.fs
            /\ last' = [op |-> "getVariable", var |-> var, area |-> area,
                        source |-> source, status |-> res.status,
                        cycle |-> res.cycle, result |-> res.gribs,
                        fetches |-> res.fetches, changed |-> (res.fs # fs),
                        prev |-> hist.gv[<<var, area, source>>],
                        before |-> hist.seen[source]]
            /\ hist' = Expire(RecordGetVariable(hist, var, area, source, res), end)
            /\ UNCHANGED <<NDFD_LOCAL_SERVER, query, callers>>

CallGetElevationVariable(area) ==
    \E outcome \in FetchOutcomes :
    \E res \in {getElevationVariable(area, outcome, NDFD_LOCAL_SERVER, fs)} :
            /\ query.pc = "idle"
            /\ fs' = res.fs
            /\ last' = [op |-> "getElevationVariable", area |-> area,
                        status |-> res.status, result |-> res.path,
                        fetches |-> res.fetches, changed |-> (res.fs # fs),
                        prev |-> (area \in hist.elev)]
            /\ hist' = IF res.status = "ok"
                       THEN [hist EXCEPT !.elev = @ \cup {area}] ELSE hist
            /\ UNCHANGED <<clock, NDFD_LOCAL_SERVER, query, callers>>

\* getLocationData, lines 289-291: the tile is selected and the arguments
\* are validated.
StartQuery(q) ==
    \E r \in Reads(4) :
    \E area \in {IF q.area = None THEN getSmallestGrid(q.lat, q.lon) ELSE q.area} :
    \E valid \in {validateArguments(q.var, area, q.timeStep, q.minTime, q.maxTime, r)} :
        /\ query.pc = "idle"
        /\ r[4] <= MaxClock
        /\ clock' = r[4]
        /\ IF valid = "ok"
           THEN /\ query' = [pc |-> "validated", q |-> q, area |-> area,
                             forecastTime |-> 0, varRTMA |-> <<>>, varNDFD |-> <<>>,
                             fetches |-> <<>>, changed |-> FALSE,
                             validated |-> ValidationCycles(q.minTime, q.maxTime, r),
                             cycles |-> <<>>,
                             prev |-> Expire(hist, r[4]).failed]
                /\ last' = [op |-> "running"]
                /\ hist' = Expire(hist, r[4])
           ELSE /\ query' = Idle
                /\ hist' = [Expire(hist, r[4]) EXCEPT !.failed = NoFailure]
                /\ last' = [op |-> "getLocationData", stage |-> "validate",
                            q |-> q, area |-> area,
                            status |-> valid, fetches |-> <<>>, changed |-> FALSE,
                            result |-> <<>>, server |-> NDFD_LOCAL_SERVER]
        /\ UNCHANGED <<fs, NDFD_LOCAL_SERVER, callers>>

\* Line 297.
QueryForecastTime ==
    /\ query.pc = "validated"
    /\ \E r \in Reads(2) :
        /\ r[2] <= MaxClock
        /\ clock' = r[2]
        /\ hist' = Expire(hist, r[2])
        /\ query' = [query EXCEPT !.pc = "timed",
                                  !.forecastTime = getLatestForecastTime(r[1], r[2])]
        /\ UNCHANGED <<fs, NDFD_LOCAL_SERVER, last, callers>>

\* Lines 312 and 313: getVariable(var, area, source) within the call; an
\* exception ends the call.
QueryGetVariable(source, pc, next) ==
    /\ query.pc = pc
    /\ \E r \in Reads(2 + NumVPs(query.area)), net \in Networks(NumVPs(query.area)) :
       \E res \in {getVariable(query.q.var, query.area, source, r, net, NDFD_LOCAL_SERVER, fs)},
          end \in {r[2 + NumVPs(query.area)]} :
        /\ end <= MaxClock
        /\ clock' = end
        /\ fs' = res.fs
        /\ IF res.status = "ok"
           THEN /\ hist' = Expire(RecordGetVariable(hist, query.q.var, query.area,
                                                    source, res), end)
                /\ query' = [query EXCEPT
                                !.pc = next,
                                !.cycles = Append(@, res.cycle),
                                !.varRTMA = IF source = "RTMA" THEN res.gribs ELSE @,
                                !.varNDFD = IF source = "NDFD" THEN res.gribs ELSE @,
                                !.fetches = @ \o res.fetches,
                                !.changed = @ \/ res.fs # fs]
                /\ last' = last
           ELSE /\ hist' = Expire(
                              [RecordGetVariable(hist, query.q.var, query.area,
                                                 source, res)
                                 EXCEPT !.failed =
                                     IF source = "NDFD"
                                     THEN [valid |-> TRUE, q |-> query.q,
                                           cycle |-> query.cycles[1],
                                           gribs |-> query.varRTMA]
                                     ELSE NoFailure],
                              end)
                /\ query' = Idle
                /\ last' = [op |-> "getLocationData", stage |-> "fetch",
                            q |-> query.q, area |-> query.area,
                            status |-> res.status,
                            fetches |-> query.fetches \o res.fetches,
                            changed |-> (query.changed \/ res.fs # fs),
                            result |-> <<>>, server |-> NDFD_LOCAL_SERVER,
                            validated |-> query.validated,
                            cycles |-> Append(query.cycles, res.cycle),
                            varRTMA |-> query.varRTMA,
                            prev |-> query.prev]
        /\ UNCHANGED <<NDFD_LOCAL_SERVER, callers>>

QueryRTMA == QueryGetVariable("RTMA", "timed", "rtma")
QueryNDFD == QueryGetVariable("NDFD", "rtma", "ndfd")

\* Lines 316-348: the files are decoded and the result is returned.
QueryExtract ==
    /\ query.pc = "ndfd"
    /\ \E rshape \in RtmaShapes, nshape \in NdfdShapes :
       \E ex \in {Extract(query.varRTMA, query.varNDFD, rshape, nshape,
                          query.q.lat, query.q.lon)} :
        /\ query' = Idle
        /\ last' = [op |-> "getLocationData", stage |-> "extract",
                    q |-> query.q, area |-> query.area,
                    status |-> ex.status, fetches |-> query.fetches,
                    changed |-> query.changed,
                    result |-> IF ex.status = "ok"
                               THEN [var |-> query.q.var, reqLat |-> query.q.lat,
                                     reqLon |-> query.q.lon,
                                     forecastTime |-> query.forecastTime,
                                     variables |-> ex.variables]
                               ELSE <<>>,
                    server |-> NDFD_LOCAL_SERVER,
                    rshape |-> rshape, nshape |-> nshape,
                    varNDFD |-> query.varNDFD,
                    validated |-> query.validated,
                    cycles |-> query.cycles,
                    varRTMA |-> query.varRTMA,
                    prev |-> query.prev]
        /\ hist' = [hist EXCEPT !.failed = NoFailure]
        /\ UNCHANGED <<clock, fs, NDFD_LOCAL_SERVER, callers>>


\* A step of a caller changes its locals, and the file system when fsNew
\* differs from fs.
CallerStep(c, cl, fsNew) ==
    /\ callers' = [callers EXCEPT ![c] = cl]
    /\ fs' = fsNew
    /\ UNCHANGED <<clock, NDFD_LOCAL_SERVER, query, last, hist>>

Raise(cl, exc) == [cl EXCEPT !.pc = "done", !.status = exc]

\* Line 136: the cycle is resolved.
ConcResolve(c) ==
    /\ callers[c].pc = "idle"
    /\ \E r \in Reads(2) :
        /\ r[2] <= MaxClock
        /\ clock' = r[2]
        /\ hist' = Expire(hist, r[2])
        /\ callers' = [callers EXCEPT ![c] =
                [IdleCaller EXCEPT !.pc = "resolved",
                                   !.cycle = getLatestForecastTime(r[1], r[2])]]
        /\ UNCHANGED <<fs, NDFD_LOCAL_SERVER, query, last>>

\* Line 137.
ConcCheckDir(c) ==
    /\ callers[c].pc = "resolved"
    /\ CallerStep(c, [callers[c] EXCEPT
                        !.pc = IF isdir(fs, DirTimeOf(callers[c])) THEN "loop" ELSE "rmtree",
                        !.i = NextVP(1)], fs)

\* Lines 138-139.
ConcRmtree(c) ==
    /\ callers[c].pc = "rmtree"
    /\ CallerStep(c, [callers[c] EXCEPT !.pc = "makedirs"],
                  rmtree(fs, TMP_DIR(SharedKey.source)))

\* Line 140: makedirs raises when the directory exists.
ConcMakedirs(c) ==
    /\ callers[c].pc = "makedirs"
    /\ IF isdir(fs, DirTimeOf(callers[c]))
       THEN CallerStep(c, Raise(callers[c], "FileExistsError"), fs)
       ELSE CallerStep(c, [callers[c] EXCEPT !.pc = "loop"],
                       makedirs(fs, DirTimeOf(callers[c])))

\* Lines 141-151 and 166: the next validity period, or the return.
ConcLoop(c) ==
    /\ callers[c].pc = "loop"
    /\ IF callers[c].i > Len(ndfdDefs.vars[SharedKey.area])
       THEN CallerStep(c, [callers[c] EXCEPT !.pc = "done"], fs)
       ELSE CallerStep(c, [callers[c] EXCEPT
                            !.pc = IF isdir(fs, LocalDirOf(callers[c]))
                                   THEN "checkfile" ELSE "makelocal"], fs)

\* Line 152.
ConcMakeLocalDir(c) ==
    /\ callers[c].pc = "makelocal"
    /\ IF isdir(fs, LocalDirOf(callers[c]))
       THEN CallerStep(c, Raise(callers[c], "FileExistsError"), fs)
       ELSE CallerStep(c, [callers[c] EXCEPT !.pc = "checkfile"],
                       makedirs(fs, LocalDirOf(callers[c])))

\* Line 153: a file that is at localVar is taken for the cached file.
ConcCheckFile(c) ==
    /\ callers[c].pc = "checkfile"
    /\ IF isfile(fs, LocalVarOf(callers[c]))
       THEN CallerStep(c, [callers[c] EXCEPT
                !.pc = "verify",
                !.sawPartial = @ \/ \E d \in Callers \ {c} :
                                    callers[d].writing = <<LocalVarOf(callers[c])>>], fs)
       ELSE CallerStep(c, [callers[c] EXCEPT !.pc = "fetch"], fs)

\* Lines 154-159: urlretrieve opens localVar for writing.
ConcStartFetch(c) ==
    /\ callers[c].pc = "fetch"
    /\ IF ~isdir(fs, LocalDirOf(callers[c]))
       THEN CallerStep(c, Raise(callers[c], "FileNotFoundError"), fs)
       ELSE CallerStep(c, [callers[c] EXCEPT
                            !.pc = "fetching",
                            !.fetched = @ \cup {LocalVarOf(callers[c])},
                            !.writing = <<LocalVarOf(callers[c])>>],
                       urlretrieve(fs, LocalVarOf(callers[c]), "ok"))

\* Lines 156, 159: urlretrieve has written the file and returns.
ConcFinishFetch(c) ==
    /\ callers[c].pc = "fetching"
    /\ CallerStep(c, [callers[c] EXCEPT !.pc = "verify", !.writing = <<>>], fs)

\* Lines 160-162.
ConcVerify(c) ==
    /\ callers[c].pc = "verify"
    /\ IF ~isfile(fs, LocalVarOf(callers[c]))
       THEN CallerStep(c, Raise(callers[c], "RuntimeError"), fs)
       ELSE CallerStep(c, [callers[c] EXCEPT
                            !.pc = "loop",
                            !.gribs = Append(@, LocalVarOf(callers[c])),
                            !.i = NextVP(@ + 1)], fs)

\* Line 166, or the exception: the call ends.
ConcReturn(c) ==
    /\ callers[c].pc = "done"
    /\ callers' = [callers EXCEPT ![c] = IdleCaller]
    /\ last' = [op |-> "return", status |-> callers[c].status,
                result |-> IF callers[c].status = "ok" THEN callers[c].gribs ELSE <<>>,
                missing |-> IF callers[c].status = "ok"
                            THEN {p \in Range(callers[c].gribs) : ~isfile(fs, p)}
                            ELSE {}]
    /\ UNCHANGED <<clock, fs, NDFD_LOCAL_SERVER, query, hist>>

\* ---------------------------------------------------------- specifications

\* Two callers of getVariable, their steps interleaved with each other and
\* with advances of the wall clock.
NextConc ==
    \/ Tick
    \/ \E c \in Callers :
        \/ ConcResolve(c)
        \/ ConcCheckDir(c)
        \/ ConcRmtree(c)
        \/ ConcMakedirs(c)
        \/ ConcLoop(c)
        \/ ConcMakeLocalDir(c)
        \/ ConcCheckFile(c)
        \/ ConcStartFetch(c)
        \/ ConcFinishFetch(c)
        \/ ConcVerify(c)
        \/ ConcReturn(c)

SpecConc == Init /\ [][NextConc]_vars

\* getVariable calls interleaved with advances of the wall clock.
NextVar ==
    \/ Tick
    \/ \E var \in CallVars, area \in CallAreas, source \in Sources :
            CallGetVariable(var, area, source)

SpecVar == Init /\ [][NextVar]_vars

\* getElevationVariable calls, with the override server set and unset, among
\* getVariable calls for the forecast source and advances of the wall clock.
NextElev ==
    \/ Tick
    \/ \E uri \in Uris : setLocalCacheServerNDFD(uri)
    \/ \E area \in ElevAreas : CallGetElevationVariable(area)
    \/ \E var \in CallVars : CallGetVariable(var, "neast", "NDFD")

SpecElev == Init /\ [][NextElev]_vars

\* The fetching operations for one variable of tile neast, from both sources,
\* with the override server set and unset.
NextServer ==
    \/ Tick
    \/ \E uri \in Uris : setLocalCacheServerNDFD(uri)
    \/ \E area \in ElevAreas : CallGetElevationVariable(area)
    \/ \E source \in Sources : CallGetVariable("temp", "neast", source)

SpecServer == Init /\ [][NextServer]_vars

\* getLocationData calls and advances of the wall clock.
NextQuery ==
    \/ Tick
    \/ \E q \in Queries : StartQuery(q)
    \/ QueryForecastTime
    \/ QueryRTMA
    \/ QueryNDFD
    \/ QueryExtract

SpecQuery == Init /\ [][NextQuery]_vars

\* Every operation of the module.
Next ==
    \/ Tick
    \/ \E uri \in Uris : setLocalCacheServerNDFD(uri)
    \/ \E var \in CallVars, area \in CallAreas, source \in Sources :
            CallGetVariable(var, area, source)
    \/ \E area \in ElevAreas : CallGetElevationVariable(area)
    \/ \E q \in Queries : StartQuery(q)
    \/ QueryForecastTime
    \/ QueryRTMA
    \/ QueryNDFD
    \/ QueryExtract

Spec == Init /\ [][Next]_vars

\* getLatestForecastTime at every wall-clock time of PureDays days.
InitClock ==
    /\ clock \in 0..(PureDays * 1440 - 1)
    /\ fs = EmptyFS
    /\ NDFD_LOCAL_SERVER = None
    /\ query = Idle
    /\ last = [op |-> "import"]
    /\ hist = NoHistory
    /\ callers = NoCallers

CallGetLatestForecastTime ==
    \E t2 \in {clock, NextBoundary(clock)} :
        /\ last.op = "import"
        /\ last' = [op |-> "getLatestForecastTime", now |-> clock,
                    result |-> getLatestForecastTime(clock, t2)]
        /\ clock' = t2
        /\ UNCHANGED <<fs, NDFD_LOCAL_SERVER, query, hist, callers>>

SpecClock == InitClock /\ [][CallGetLatestForecastTime]_vars

\* getSmallestGrid at every query point of the lattice.
InitGrid ==
    /\ clock = StartClock
    /\ fs = EmptyFS
    /\ NDFD_LOCAL_SERVER = None
    /\ query = Idle
    /\ last \in {[op |-> "request", lat |-> lat, lon |-> lon] :
                    lat \in 0..MaxCoord, lon \in 0..MaxCoord}
    /\ hist = NoHistory
    /\ callers = NoCallers

CallGetSmallestGrid ==
    /\ last.op = "request"
    /\ last' = [op |-> "getSmallestGrid", lat |-> last.lat, lon |-> last.lon,
                result |-> getSmallestGrid(last.lat, last.lon)]
    /\ UNCHANGED <<clock, fs, NDFD_LOCAL_SERVER, query, hist, callers>>

SpecGrid == InitGrid /\ [][CallGetSmallestGrid]_vars

\* getSmallestGrid at every query point of the lattice, for every iteration
\* order of the catalog.
InitOrder ==
    /\ clock = StartClock
    /\ fs = EmptyFS
    /\ NDFD_LOCAL_SERVER = None
    /\ query = Idle
    /\ last \in {[op |-> "ordered request", order |-> o, lat |-> lat, lon |-> lon] :
                    o \in Orders, lat \in 0..MaxCoord, lon \in 0..MaxCoord}
    /\ hist = NoHistory
    /\ callers = NoCallers

CallGetSmallestGridIn ==
    /\ last.op = "ordered request"
    /\ last' = [op |-> "getSmallestGridIn", order |-> last.order,
                lat |-> last.lat, lon |-> last.lon,
                result |-> getSmallestGridIn(last.order, last.lat, last.lon)]
    /\ UNCHANGED <<clock, fs, NDFD_LOCAL_SERVER, query, hist, callers>>

SpecOrder == InitOrder /\ [][CallGetSmallestGridIn]_vars

\* getNearestXrGridPoint at every query point of the lattice.
InitNearest ==
    /\ clock = StartClock
    /\ fs = EmptyFS
    /\ NDFD_LOCAL_SERVER = None
    /\ query = Idle
    /\ last \in {[op |-> "point", lat |-> lat, lon |-> lon] :
                    lat \in 0..MaxCoord, lon \in 0..MaxCoord}
    /\ hist = NoHistory
    /\ callers = NoCallers

CallGetNearestXrGridPoint ==
    /\ last.op = "point"
    /\ last' = [op |-> "getNearestXrGridPoint", lat |-> last.lat, lon |-> last.lon,
                result |-> getNearestXrGridPoint(last.lat, last.lon)]
    /\ UNCHANGED <<clock, fs, NDFD_LOCAL_SERVER, query, hist, callers>>

SpecNearest == InitNearest /\ [][CallGetNearestXrGridPoint]_vars

\* ------------------------------------------------------------------ claims

Published(var, area) ==
    /\ area \in DOMAIN ndfdDefs.vars
    /\ \E i \in 1..Len(ndfdDefs.vars[area]) : var \in ndfdDefs.vars[area][i][2]

\* C1: once getVariable(var, area, source) has succeeded in a forecast cycle,
\* a later call with the same arguments in the same cycle returns the same
\* list of paths and fetches nothing.
C1_FetchedOncePerCycle ==
    (/\ last.op = "getVariable"
     /\ last.status = "ok"
     /\ last.prev.valid
     /\ last.prev.cycle = last.cycle)
    => (last.result = last.prev.gribs /\ last.fetches = <<>>)

\* The part of C1 that the forecast source keeps.
C1_ForecastFetchedOncePerCycle ==
    (last.op = "getVariable" /\ last.source = "NDFD") => C1_FetchedOncePerCycle

CycleDirs(source) ==
    {p \in fs.dirs : Len(p) = 2 /\ IsPrefix(TMP_DIR(source), p) /\ p[2][1] = "T"}

\* C2: after getVariable calls and advances of the clock, the cache root of a
\* source holds the directory of one cycle, that of the source's most recent
\* call, and nothing of another cycle.
C2_OneCyclePerRoot ==
    \A source \in Sources :
        hist.seen[source].called =>
            /\ CycleDirs(source) =
                   {TMP_DIR(source) \o <<strftime(hist.seen[source].cycle)>>}
            /\ \A p \in fs.dirs \cup fs.files :
                   (IsPrefix(TMP_DIR(source), p) /\ Len(p) >= 2 /\ p[2][1] = "T")
                       => p[2] = strftime(hist.seen[source].cycle)

\* A call has found the directory of its cycle missing after a call in an
\* earlier cycle had filled the cache.
C2_Witness ==
    /\ last.op = "getVariable"
    /\ last.before.called
    /\ last.before.cycle # last.cycle
    /\ last.changed
    /\ last.result # <<>>

\* C3: once getElevationVariable(area) has fetched the file, a later
\* getElevationVariable(area) fetches nothing, whatever happened in between.
C3_ElevationFetchedOnce ==
    (/\ last.op = "getElevationVariable"
     /\ last.status = "ok"
     /\ last.prev)
    => last.fetches = <<>>

\* C5: getVariable fails with ValueError for a tile that is not in the
\* catalog and for a variable the tile does not publish; it never returns
\* normally for such a request.
C5_InvalidRequestRejected ==
    (last.op = "getVariable" /\ ~Published(last.var, last.area))
        => last.status = "ValueError"

Truncated(t) == 60 * (t \div 60)

\* C9: getLatestForecastTime is the hour of (time - 1 hour) when the minute is
\* <= 15 and the hour of time otherwise; its minute is 0; hour 0 with minute
\* <= 15 gives hour 23 of the previous day.
C9_LatestForecastTime ==
    last.op = "getLatestForecastTime" =>
        /\ (last.now % 60 <= 15 => last.result = Truncated(last.now - 60))
        /\ (last.now % 60 > 15 => last.result = Truncated(last.now))
        /\ minute(last.result) = 0
        /\ (hour(last.now) = 0 /\ last.now % 60 <= 15)
               => (hour(last.result) = 23 /\ day(last.result) = day(last.now) - 1)

\* The clock function has been applied at 00:15 of a day, the clock passing
\* to 00:16 between its two reads.
C9_Witness ==
    /\ last.op = "getLatestForecastTime"
    /\ hour(last.now) = 0
    /\ minute(last.now) = 15
    /\ clock = last.now + 1

NonExcluded == {GridOrder[i] : i \in {j \in 1..Len(GridOrder) : ~Excluded(GridOrder[j])}}

DistTo(lat, lon, area) ==
    Dist(lon, lat, ndfdDefs.grids[area].lonC, ndfdDefs.grids[area].latC)

\* C10: getSmallestGrid returns a tile of the catalog that is none of conus,
\* nhemi, npacocn and whose centroid is nearest to the query point among the
\* other tiles; at the centroid of such a tile it returns that tile.
C10_SmallestGrid ==
    last.op = "getSmallestGrid" =>
        /\ last.result \in NonExcluded
        /\ \A area \in NonExcluded :
               DistTo(last.lat, last.lon, last.result) <= DistTo(last.lat, last.lon, area)
        /\ \A area \in NonExcluded :
               (last.lat = ndfdDefs.grids[area].latC /\ last.lon = ndfdDefs.grids[area].lonC)
                   => last.result = area

\* getSmallestGrid has answered at the centroid of a tile other than neast,
\* and at a point that is nearest to a coarse tile.
C10_Witness ==
    /\ last.op = "getSmallestGrid"
    /\ last.lat = ndfdDefs.grids["pacnwest"].latC
    /\ last.lon = ndfdDefs.grids["pacnwest"].lonC
    /\ last.result = "pacnwest"

\* C4: getLocationData with a variable that no validity period of the tile
\* publishes fails with ValueError; it has fetched nothing and has left the
\* cache as it was, and no such call gets past the validation.
C4_UnpublishedVariableRejected ==
    /\ (/\ last.op = "getLocationData"
        /\ last.area \in DOMAIN ndfdDefs.vars
        /\ ~Published(last.q.var, last.area))
       => (last.status = "ValueError" /\ last.fetches = <<>> /\ ~last.changed)
    /\ query.pc # "idle" => Published(query.q.var, query.area)

\* A query for a variable the selected tile does not publish has been
\* rejected while the cache held the files of an earlier query.
C4_Witness ==
    /\ last.op = "getLocationData"
    /\ last.q.var = "snow"
    /\ last.area = "neast"
    /\ last.status = "ValueError"
    /\ fs.files # {}

\* C6: every timestamp of every series of the result lies in the window
\* [minTime, maxTime] and on the hour grid of step timeStep, that is among the
\* valid times enumerated for the call.
C6_TimesWithinWindow ==
    (last.op = "getLocationData" /\ last.status = "ok") =>
        \A v \in DOMAIN last.result.variables :
            \A t \in DOMAIN last.result.variables[v] :
                t \in Range(validTimes(last.result.forecastTime, last.q.timeStep,
                                       last.q.minTime, last.q.maxTime))

\* C7: the call that has decoded its files returns, for every variable v of
\* every forecast file and every step i, a series of v in which the valid
\* time of step i maps to the value of v at (i, yIndex, xIndex), whatever
\* variables the analysis files held.
C7_ForecastSeriesExtracted ==
    (last.op = "getLocationData" /\ last.stage = "extract") =>
        /\ last.status = "ok"
        /\ \A k \in 1..Len(last.varNDFD), v \in Range(last.nshape), i \in 1..NumSteps :
            /\ v \in DOMAIN last.result.variables
            /\ NdfdTimes(last.varNDFD[k])[i] \in DOMAIN last.result.variables[v]
            /\ last.result.variables[v][NdfdTimes(last.varNDFD[k])[i]] =
                   NdfdValue(v, i,
                             getNearestXrGridPoint(last.q.lat, last.q.lon).idy[1],
                             getNearestXrGridPoint(last.q.lat, last.q.lon).idx[1])

\* C8: getLocationData with elev = True fails with the error of
\* getElevationVariable (RuntimeError without an override server, ValueError
\* for tile puertori) and has fetched nothing.
C8_ElevationNeedsServer ==
    (/\ last.op = "getLocationData"
     /\ last.q.elev
     /\ (last.server = None \/ last.area = "puertori"))
    => (last.status \in {"RuntimeError", "ValueError"} /\ last.fetches = <<>>)

AllCells == {<<y, x>> : y \in 1..Len(GridLat), x \in 1..Len(GridLat[1])}

IsMinCell(c, lat, lon) ==
    \A d \in AllCells : CellDist(c, lat, lon) <= CellDist(d, lat, lon)

\* C11: getNearestXrGridPoint returns exactly the index pairs (idx, idy) of
\* the cells whose squared planar distance to the query point is the minimum
\* over the grid, all tied cells included, with gLat and gLon the coordinates
\* at those indices; near the corner (0, 0) of the 2x2 grid the only cell
\* returned is that corner.
C11_NearestCells ==
    last.op = "getNearestXrGridPoint" =>
        /\ Len(last.result.idx) = Len(last.result.idy)
        /\ Len(last.result.gLat) = Len(last.result.idx)
        /\ Len(last.result.gLon) = Len(last.result.idx)
        /\ {<<last.result.idy[k], last.result.idx[k]>> : k \in 1..Len(last.result.idx)}
               = {c \in AllCells : IsMinCell(c, last.lat, last.lon)}
        /\ \A k \in 1..Len(last.result.idx) :
               /\ last.result.gLat[k] = GridLat[last.result.idy[k]][last.result.idx[k]]
               /\ last.result.gLon[k] = GridLon[last.result.idy[k]][last.result.idx[k]]
        /\ (last.lat = 1 /\ last.lon = 1) =>
               (last.result.idy = <<1>> /\ last.result.idx = <<1>>)

\* The locator has answered at a point that is equally far from two cells.
C11_Witness ==
    /\ last.op = "getNearestXrGridPoint"
    /\ last.lat = 5
    /\ last.lon = 1
    /\ Len(last.result.idx) = 2

\* C12: when a getLocationData call has resolved its analysis files and has
\* then failed on the forecast fetch, the analysis files are still in the
\* cache after the error, and the same query made again in the same cycle
\* makes no fetch for the analysis source.
C12_RetryFetchesOnlyMissing ==
    /\ hist.failed.valid =>
           \A k \in 1..Len(hist.failed.gribs) : isfile(fs, hist.failed.gribs[k])
    /\ (/\ last.op = "getLocationData"
        /\ last.stage \in {"fetch", "extract"}
        /\ last.prev.valid
        /\ last.prev.q = last.q
        /\ last.cycles[1] = last.prev.cycle)
       => \A k \in 1..Len(last.fetches) :
              ~IsPrefix(RTMA_TMP, last.fetches[k].localVar)

\* The part of C12 that holds: the files the failed call had resolved stay in
\* the cache until the cycle ends.
C12_FetchedFileKept ==
    hist.failed.valid =>
        \A k \in 1..Len(hist.failed.gribs) : isfile(fs, hist.failed.gribs[k])

\* The paths a finished getVariable or getElevationVariable call has returned.
Returned ==
    IF last.status # "ok" THEN {}
    ELSE IF last.op = "getVariable" THEN Range(last.result)
    ELSE {last.result}

\* The part of C13 that holds: at most one fetch attempt per file, and a
\* returned path has its file in the cache.
C13_OneAttemptAndFilesExist ==
    last.op \in {"getVariable", "getElevationVariable"} =>
        /\ \A j, k \in 1..Len(last.fetches) :
               last.fetches[j].localVar = last.fetches[k].localVar => j = k
        /\ \A p \in Returned : isfile(fs, p)

\* C13: a call makes one fetch attempt for each missing file; when the file
\* is not at its local path after the attempt the call fails with
\* RuntimeError; a path is returned only if its file exists.
C13_FetchFailedIsRuntimeError ==
    /\ C13_OneAttemptAndFilesExist
    /\ last.op \in {"getVariable", "getElevationVariable"} =>
           ((\E k \in 1..Len(last.fetches) : ~isfile(fs, last.fetches[k].localVar))
               => last.status = "RuntimeError")

\* The override server configured for a source (None: not configured).
Override(source) == IF source = "NDFD" THEN NDFD_LOCAL_SERVER ELSE RTMA_LOCAL_SERVER

\* The archive a source is fetched from when no override is configured.
Archive(source) == IF source = "NDFD" THEN NDFD_REMOTE_SERVER ELSE RTMA_REMOTE_SERVER

\* C14: every fetch of a getVariable call uses the override server of its
\* source when one is configured and the public archive otherwise; the
\* elevation fetch uses the override server; and only
\* setLocalCacheServerNDFD changes the configured server.
C14_ServerSelection ==
    /\ [](/\ last.op = "getVariable" =>
                \A k \in 1..Len(last.fetches) :
                    last.fetches[k].server =
                        IF Override(last.source) # None
                        THEN Override(last.source) ELSE Archive(last.source)
          /\ last.op = "getElevationVariable" =>
                \A k \in 1..Len(last.fetches) :
                    last.fetches[k].server = NDFD_LOCAL_SERVER /\ NDFD_LOCAL_SERVER # None)
    /\ [][NDFD_LOCAL_SERVER' # NDFD_LOCAL_SERVER
              => last'.op = "setLocalCacheServerNDFD"]_vars

\* A forecast file has been fetched from the configured override server.
C14_Witness ==
    /\ last.op = "getVariable"
    /\ last.source = "NDFD"
    /\ NDFD_LOCAL_SERVER = "cache.local"
    /\ last.fetches # <<>>
    /\ last.status = "ok"

\* C15: of two callers that run getVariable for the same key at the same
\* time, at most one fetches a given file, and neither takes a file that the
\* other is still writing for a cached file.
C15_AtMostOneFetchPerKey ==
    /\ \A c, d \in Callers : c # d => callers[c].fetched \cap callers[d].fetched = {}
    /\ \A c \in Callers : ~callers[c].sawPartial

\* C16: no other caller's rollover deletes the files of a call in progress:
\* every path a call returns has its file in the cache when the call returns.
C16_ReturnedFilesExist ==
    last.op = "return" => last.missing = {}

\* C17: when several candidate tiles are at the same minimum distance from
\* the query point, getSmallestGrid returns the first of them in the
\* iteration order of the catalog, whatever that order is.
C17_FirstTiedTileWins ==
    last.op = "getSmallestGridIn" =>
        \E i \in 1..Len(last.order) :
            /\ last.result = last.order[i]
            /\ ~Excluded(last.order[i])
            /\ \A area \in NonExcluded :
                   DistTo(last.lat, last.lon, last.order[i])
                       <= DistTo(last.lat, last.lon, area)
            /\ \A j \in 1..(i - 1) :
                   Excluded(last.order[j])
                   \/ DistTo(last.lat, last.lon, last.order[j])
                          > DistTo(last.lat, last.lon, last.order[i])

\* The part of C17 that holds: with neast before the tiles it is tied with.
C17_FirstTiedTileWinsInOrder ==
    (last.op = "getSmallestGridIn" /\ last.order = GridOrder) => C17_FirstTiedTileWins

\* The analysis hour of an RTMA path (its RT component).
AnalysisHour(p) == p[6][2]

\* The RTMA paths of the last call and of the earlier successful call with
\* the same arguments in the same cycle.
SameCyclePaths ==
    Range(last.result) \cup
        (IF last.prev.valid /\ last.prev.cycle = last.cycle
         THEN Range(last.prev.gribs) ELSE {})

\* C18: the analysis hour that getVariable puts into an RTMA path is an hour
\* of the day, 0..23, and is the same for all paths resolved in one cycle.
C18_AnalysisHourOfCycle ==
    (last.op = "getVariable" /\ last.source = "RTMA") =>
        /\ \A p \in Range(last.result) : AnalysisHour(p) \in 0..23
        /\ \A p, q \in SameCyclePaths : AnalysisHour(p) = AnalysisHour(q)

\* C19: the forecast cycle a getLocationData call reports in its result is
\* the cycle of the directories its analysis and forecast files were
\* resolved under and the cycle minTime and maxTime were validated against.
C19_OneCyclePerQuery ==
    (last.op = "getLocationData" /\ last.status = "ok") =>
        /\ \A k \in 1..Len(last.cycles) : last.cycles[k] = last.result.forecastTime
        /\ \A k \in 1..Len(last.validated) :
               last.validated[k] = last.result.forecastTime

\* C20: a getVariable call that is rejected for an invalid area has fetched
\* nothing and has left the cache as it was.
C20_RejectedCallLeavesCache ==
    (last.op = "getVariable" /\ last.status = "ValueError") =>
        (~last.changed /\ last.fetches = <<>>)

====
